---- MODULE Spec2Model ----
(***************************************************************************)
(* The job pipeline of scenely_server: the API handler create_job and the  *)
(* Celery task process_job, over the Job Store (a SQLAlchemy session on a  *)
(* relational database).  The database holds what has been committed; the  *)
(* session holds the worker's uncommitted view.  process_job is a sequence *)
(* of steps separated by commits and collaborator calls; each step is one  *)
(* action, so that every committed state an observer or a crash can see is *)
(* a state of the model.                                                   *)
(***************************************************************************)
EXTENDS Integers, Sequences, FiniteSets, TLC

\* ---------------------------------------------------------------- bounds
MaxSegs == 2          \* most segments the AI stage returns
MaxItems == 2         \* most vocabulary items of one segment
MaxDeliveries == 2    \* most deliveries of the job identifier (SpecRedeliver)
MaxResults == 1       \* most results of one speech recognition response
MaxReads == 1         \* most status requests the API answers
MaxUndeleted == 1     \* most files whose deletion fails in one cleanup
MaxWords == 3         \* most words of a list given to words_to_segments

\* ------------------------------------------------------------- JobStatus
QUEUED == "queued"
DOWNLOADING == "downloading"
EXTRACTING_AUDIO == "extracting_audio"
UPLOADING_GCS == "uploading_gcs"
ASR_RUNNING == "asr_running"
GEMINI_RUNNING == "gemini_running"
COMPLETED == "completed"
FAILED == "failed"

JobStatus ==
  {QUEUED, DOWNLOADING, EXTRACTING_AUDIO, UPLOADING_GCS, ASR_RUNNING,
   GEMINI_RUNNING, COMPLETED, FAILED}

Terminal == {COMPLETED, FAILED}

\* -------------------------------------------------------------- progress
\* progress is a float in the code.  The model keeps it exact: a progress p
\* is the integer p * 100 * Unit, where Unit is the least common multiple
\* of the possible segment totals, so that 0.30 * (idx / total) is integral.
RECURSIVE Gcd(_, _)
Gcd(a, b) == IF b = 0 THEN a ELSE Gcd(b, a % b)

RECURSIVE LcmUpTo(_)
LcmUpTo(n) == IF n <= 1 THEN 1 ELSE (LcmUpTo(n - 1) * n) \div Gcd(LcmUpTo(n - 1), n)

Unit == LcmUpTo(MaxSegs)

\* p hundredths as a progress value
Pct(p) == p * Unit

One == Pct(100)

\* mutant: the per-segment progress counts the remaining segments
SegmentProgressRemaining(i, total) ==
  Pct(60) + (IF total > 0 THEN (Pct(30) * (total - i)) \div total ELSE Pct(30))

\* job.progress = 0.60 + (0.30 * (idx / total_segments if total_segments > 0 else 1))
SegmentProgress(i, total) ==
  Pct(60) + (IF total > 0 THEN (Pct(30) * i) \div total ELSE Pct(30))

\* ------------------------------------------------------------ exceptions
\* An exception is its type and message; str(e) is the message.
Exc(t, m) == [type |-> t, msg |-> m]

NoExc == Exc("none", "")

Str(e) == e.msg

JobNotFound == Exc("ValueError", "Job not found")
ServiceInitError == Exc("RuntimeError", "service init failed")
AcquireError == Exc("RuntimeError", "FFmpeg conversion failed")
GeminiError == Exc("ValueError", "Incomplete Gemini response")
CutError == Exc("RuntimeError", "FFmpeg segment cut failed")
SttError == Exc("TimeoutError", "Operation did not complete within the designated timeout")
UploadError == Exc("S3UploadFailedError", "Failed to upload")
DbError == Exc("OperationalError", "database error")
PendingRollbackError == Exc("PendingRollbackError", "This Session's transaction has been rolled back due to a previous exception during flush")
AttributeError == Exc("AttributeError", "'TranscriptSegment' object has no attribute 'get'")
QueueError == Exc("OperationalError", "broker unreachable")
FlacNotFound == Exc("FileNotFoundError", "FLAC file not found")
DownloadError == Exc("ClientError", "An error occurred (404) when calling the HeadObject operation")
SoftTimeLimitExceeded == Exc("SoftTimeLimitExceeded", "SoftTimeLimitExceeded()")
GeminiApiError == Exc("ServiceUnavailable", "503 The model is overloaded")
NoResultsError == Exc("RuntimeError", "No results from STT operation")
CleanupError == Exc("OSError", "Too many open files")
\* the exception of the except clause's own commit, when that commit raises
HandlerDbError == Exc("OperationalError", "database error while recording the failure")

\* ------------------------------------------------------------- Job Store
NoJob == [status |-> "absent", progress |-> 0, error |-> ""]

\* Job(status=JobStatus.QUEUED, progress=0.0), error nullable
NewJob == [status |-> QUEUED, progress |-> 0, error |-> ""]

EmptyStore ==
  [job |-> NoJob, transcripts |-> << >>, lessons |-> << >>, items |-> << >>,
   tsegs |-> << >>, words |-> << >>, results |-> << >>]

\* One segment of the AI stage's output: its startSec and endSec, and the
\* number of its vocabulary items.  The AI stage answers with segments of
\* two kinds: an interval with MaxItems vocabulary items, and a segment
\* without items whose endSec is smaller than its startSec (nothing
\* restricts the values the AI stage answers with).
SegRec ==
  {[nitems |-> MaxItems, startSec |-> 1, endSec |-> 3],
   [nitems |-> 0, startSec |-> 3, endSec |-> 1]}

SegInputs == UNION {[1..n -> SegRec] : n \in 0..MaxSegs}

\* ------------------------------------------------------ temporary files
\* The job process_job is run for, and a job of another worker process.
JobId == "job-a"
OtherJobId == "job-b"

\* A file of /tmp is its name, a sequence of the name's parts with the job
\* identifier (a UUID) as one part.
\* temp_audio_path = f"/tmp/{job_id}.flac"
AudioPath(j) == <<j, ".flac">>

\* yt-dlp's outtmpl, output_path.replace('.flac', '.%(ext)s'): the download
\* before the FFmpegExtractAudio postprocessor has converted it
DownloadPath(j) == <<j, ".webm">>

\* upload_path = f"/tmp/upload_{job_id}"
UploadPath(j) == <<"upload_", j>>

\* seg_flac = f"/tmp/{job_id}_seg_{idx}.flac", seg_mp3 = f"/tmp/{job_id}_seg_{idx}.mp3"
SegPath(j, i, ext) == <<j, "_seg_", ToString(i), ext>>

\* the value None of temp_audio_path
NoPath == << >>

Range(q) == {q[k] : k \in 1..Len(q)}

Contains(name, part) == \E k \in 1..Len(name) : name[k] = part

\* mutant: the pattern is f"{job_id}*"
GlobJobPrefix(fs, j) == {f \in fs : Len(f) > 0 /\ f[1] = j}

\* temp_dir.glob(f"*{job_id}*"): the names that contain the job identifier
GlobJob(fs, j) == {f \in fs : Contains(f, j)}

\* parent.glob('*.flac'): every name of the directory that ends in .flac
GlobFlac(fs) == {f \in fs : Len(f) > 0 /\ f[Len(f)] = ".flac"}

\* of the files an operation used, those of another job
Foreign(used) == {f \in used : ~Contains(f, JobId)}

\* what a producer that raised may leave of its output file f
MaybeLeft(f) == {{}, {f}}

\* mutant: the file is unlinked without looking whether it exists
CleanupFileUnchecked(fs, stuck, path) ==
  IF path \in fs /\ path \notin stuck
  THEN [fs |-> fs \ {path}, result |-> TRUE]
  ELSE [fs |-> fs, result |-> FALSE]

\* cleanup_file(file_path): if path.exists(): path.unlink(); return True;
\* an unlink that raises is logged and answered with False.  stuck are the
\* entries whose unlink raises (a directory, a file without permission).
CleanupFile(fs, stuck, path) ==
  IF path \notin fs THEN [fs |-> fs, result |-> TRUE]
  ELSE IF path \in stuck THEN [fs |-> fs, result |-> FALSE]
  ELSE [fs |-> fs \ {path}, result |-> TRUE]

\* for f in paths: cleanup_file(f)
RECURSIVE CleanupEach(_, _, _)
CleanupEach(fs, stuck, paths) ==
  IF paths = {} THEN fs
  ELSE LET f == CHOOSE x \in paths : TRUE
       IN CleanupEach(CleanupFile(fs, stuck, f).fs, stuck, paths \ {f})

\* cleanup_temp_files(job_id): for file_path in temp_dir.glob(pattern):
\* cleanup_file(file_path)
CleanupTempFiles(fs, stuck, j) == CleanupEach(fs, stuck, GlobJob(fs, j))

VARIABLES
  db,          \* committed contents of the Job Store
  sess,        \* the worker session's view: db plus uncommitted changes
  sessState,   \* "closed", "active", or "deactive" after a failed flush
  pc,          \* position of process_job
  segs,        \* selected_segments
  idx,         \* loop index of the segment loop
  transcriptId,\* transcript.id of this run, 0 before it is flushed
  lessonId,    \* lesson.id of the segment being persisted
  exc,         \* the exception caught by the except clause
  raised,      \* the exception process_job raised to the dispatcher
  outcome,     \* "none", "returned" or "raised"
  hist,        \* committed (status, progress) values of the job, in order
  runLog,      \* statuses this run committed, in order
  nextId,      \* next primary key
  deliveries,  \* number of deliveries of the job identifier so far
  apiResult,   \* what create_job answered: "none", "created", "error"
  crashedAt,   \* the position the worker process was killed at, or "none"
  files,       \* the files of /tmp
  temp_audio_path, \* the local of process_job, NoPath for None
  segment_files,   \* the local list of process_job
  touched,     \* the files of other jobs this job's operations have used
  deleteFailed,\* a deletion of this run raised (and was logged)
  listFailed,  \* the directory listing of the cleanup raised (and was logged)
  callLog,     \* the collaborator calls of this run that returned or raised
  stt_res,     \* what transcribe_segment returned for the current segment
  all_words,   \* the local list of process_job: the words, re-based
  response,    \* what the speech provider answered for the current segment
  uploaded,    \* the keys of the clip objects in the bucket
  statusReads, \* the number of status requests the API has answered
  cleanupRun,  \* the record of a cleanup invoked twice (SpecCleanup)
  segmentation,\* the record of a words_to_segments call (SpecSegments)
  sttCall      \* the record of a transcribe_segment call (SpecStt)

vars ==
  <<db, sess, sessState, pc, segs, idx, transcriptId, lessonId, exc, raised,
    outcome, hist, runLog, nextId, deliveries, apiResult, crashedAt, files,
    temp_audio_path, segment_files, touched, deleteFailed, listFailed,
    callLog, stt_res, all_words, response, uploaded, statusReads,
    cleanupRun, segmentation, sttCall>>

runVars == <<segs, idx, transcriptId, lessonId>>

fsVars ==
  <<files, temp_audio_path, segment_files, touched, deleteFailed, listFailed>>

\* the records of the functions that are checked by themselves
fnVars == <<segmentation, sttCall>>

\* what no step of process_job changes
apiVars == <<statusReads, cleanupRun, fnVars>>

sttVars == <<stt_res, all_words, response, uploaded>>

auxVars == <<fsVars, callLog, sttVars, apiVars>>

\* stt_res before any transcribe_segment call
NoSttRes == [words |-> << >>, transcript |-> "unset"]

\* the provider has not answered (no request yet, or the request raised)
NoResponse == <<[transcript |-> "(no response)", words |-> << >>]>>

\* no cleanup invoked (every specification but SpecCleanup)
NoCleanupRun ==
  [job |-> "none", path |-> NoPath, stuck |-> {}, calls |-> 0, before |-> {},
   afterFirst |-> {}, existed |-> FALSE, result |-> TRUE]

\* words_to_segments not called (every specification but SpecSegments)
NoSegmentation == [words |-> << >>, called |-> FALSE, segments |-> << >>]

\* the value None of gcs_uri
NoUri == << >>

\* transcribe_segment not called by itself (every specification but SpecStt)
NoSttCall ==
  [at |-> "none", local_path |-> NoPath, gcs_uri |-> NoUri, remote |-> {},
   result |-> NoSttRes, error |-> NoExc, deleteLogged |-> FALSE]

Snapshot(job) == [status |-> job.status, progress |-> job.progress]

\* mutant: the changes are flushed to the session but not committed
FlushOnly(s) ==
  /\ sess' = s
  /\ UNCHANGED <<db, hist, runLog>>

\* db.commit() succeeding: the session's view becomes the committed state.
\* hist gets the job's (status, progress) when the commit changed it.
CommitOk(s) ==
  /\ db' = s
  /\ sess' = s
  /\ hist' = IF Snapshot(s.job) # Snapshot(db.job)
             THEN Append(hist, Snapshot(s.job)) ELSE hist
  /\ runLog' = IF s.job.status # db.job.status
               THEN Append(runLog, s.job.status) ELSE runLog

\* db.commit() raising: the transaction is rolled back, the session's
\* objects are expired and pending objects expunged; nothing is committed.
CommitFail ==
  /\ sess' = db
  /\ UNCHANGED <<db, hist, runLog>>

\* the except clause is entered with exception e
Catch(e) ==
  /\ pc' = "except"
  /\ exc' = e

Init ==
  /\ db = EmptyStore
  /\ sess = EmptyStore
  /\ sessState = "closed"
  /\ pc = "idle"
  /\ segs = << >>
  /\ idx = 0
  /\ transcriptId = 0
  /\ lessonId = 0
  /\ exc = NoExc
  /\ raised = NoExc
  /\ outcome = "none"
  /\ hist = << >>
  /\ runLog = << >>
  /\ nextId = 1
  /\ deliveries = 0
  /\ apiResult = "none"
  /\ crashedAt = "none"
  /\ files = {}
  /\ temp_audio_path = NoPath
  /\ segment_files = << >>
  /\ touched = {}
  /\ deleteFailed = FALSE
  /\ listFailed = FALSE
  /\ callLog = << >>
  /\ stt_res = NoSttRes
  /\ all_words = << >>
  /\ response = NoResponse
  /\ uploaded = {}
  /\ statusReads = 0
  /\ cleanupRun = NoCleanupRun
  /\ segmentation = NoSegmentation
  /\ sttCall = NoSttCall


\* ------------------------------------------------- the job row's updates
\* job.status = JobStatus.DOWNLOADING; job.progress = 0.1
ValidateJob(job) == [job EXCEPT !.status = DOWNLOADING, !.progress = Pct(10)]

\* job.status = JobStatus.EXTRACTING_AUDIO; job.progress = 0.25
ExtractingJob(job) == [job EXCEPT !.status = EXTRACTING_AUDIO, !.progress = Pct(25)]

\* mutant: the analysis step records the speech-to-text status
GeminiJobAsAsr(job) == [job EXCEPT !.status = ASR_RUNNING, !.progress = Pct(40)]

\* job.status = JobStatus.GEMINI_RUNNING; job.progress = 0.40
GeminiJob(job) == [job EXCEPT !.status = GEMINI_RUNNING, !.progress = Pct(40)]

\* job.status = JobStatus.ASR_RUNNING; job.progress = 0.60
AsrJob(job) == [job EXCEPT !.status = ASR_RUNNING, !.progress = Pct(60)]

\* job.progress = 0.60 + 0.30 * (idx / total_segments)
SegmentJob(job, i, total) == [job EXCEPT !.progress = SegmentProgress(i, total)]

\* mutant: the final update sets the status and leaves the progress
CompletedJobNoProgress(job) == [job EXCEPT !.status = COMPLETED]

\* job.status = JobStatus.COMPLETED; job.progress = 1.0
CompletedJob(job) == [job EXCEPT !.status = COMPLETED, !.progress = One]

\* job.status = JobStatus.FAILED; job.error = str(e)
FailedJob(job, e) == [job EXCEPT !.status = FAILED, !.error = Str(e)]

\* mutant: the except clause of create_job records the error but leaves the
\* status as it was
QueueFailedJobErrorOnly(job, e) ==
  [job EXCEPT !.error = "Failed to queue job: " \o Str(e)]

\* job.status = JobStatus.FAILED; job.error = f"Failed to queue job: {str(e)}"
QueueFailedJob(job, e) ==
  [job EXCEPT !.status = FAILED, !.error = "Failed to queue job: " \o Str(e)]

\* a commit that may succeed, going on at position next, or raise
CommitStep(s, next) ==
  \E ok \in BOOLEAN :
    IF ok THEN CommitOk(s) /\ pc' = next /\ UNCHANGED exc
          ELSE CommitFail /\ Catch(DbError)

\* the collaborator call at the current position has returned or raised
Called == callLog' = Append(callLog, [call |-> pc, seg |-> idx])

\* mutant: a call that raised is made again
CallStepRetry(next, e) ==
  /\ Called
  /\ \E ok \in BOOLEAN :
       IF ok THEN pc' = next /\ UNCHANGED exc
             ELSE UNCHANGED <<pc, exc>>

\* a collaborator call that may succeed, going on at position next, or raise e
CallStep(next, e) ==
  /\ Called
  /\ \E ok \in BOOLEAN :
       IF ok THEN pc' = next /\ UNCHANGED exc
             ELSE Catch(e)

\* ------------------------------------------------------------ create_job
\* mutant: the row is added to the handler's session and not committed
CreatedUncommitted(store) == store

\* db.add(job); db.commit(): the new row is in the committed store
Created(store) == [store EXCEPT !.job = NewJob]

\* The API handler, first half: the new row is committed as QUEUED at
\* progress 0 before the task is dispatched.
CreateJobCommit ==
  /\ pc = "idle"
  /\ db.job = NoJob
  /\ db' = Created(db)
  /\ hist' = Append(hist, Snapshot(NewJob))
  /\ pc' = "created"
  /\ UNCHANGED <<sess, sessState, runVars, exc, raised, outcome, runLog,
                 nextId, deliveries, apiResult, crashedAt>>
  /\ UNCHANGED auxVars

\* The API handler, second half: process_job.delay(job.id); a dispatch that
\* raises makes the handler commit FAILED and answer with an error. The
\* commit in the except clause may itself raise: the row then stays as it
\* was committed and the request ends with that exception.
CreateJobDispatch ==
  /\ pc = "created"
  /\ \E dispatched \in BOOLEAN :
       IF dispatched
       THEN /\ pc' = "queued"
            /\ apiResult' = "created"
            /\ UNCHANGED <<db, hist>>
       ELSE /\ pc' = "undelivered"
            /\ apiResult' = "error"
            /\ \E ok \in BOOLEAN :
                 IF ok
                 THEN /\ db' = [db EXCEPT
                                  !.job = QueueFailedJob(db.job, QueueError)]
                      /\ hist' = Append(hist,
                           Snapshot(QueueFailedJob(db.job, QueueError)))
                 ELSE UNCHANGED <<db, hist>>
  /\ UNCHANGED <<sess, sessState, runVars, exc, raised, outcome, runLog,
                 nextId, deliveries, crashedAt>>
  /\ UNCHANGED auxVars

\* JobStatusResponse(status=job.status, progress=job.progress, message=job.error)
StatusResponse(job) ==
  [status |-> job.status, progress |-> job.progress, error |-> job.error]

\* GET /jobs/{job_id}: the handler reads the committed row and answers;
\* it writes nothing
GetJobStatus ==
  /\ db.job # NoJob
  /\ statusReads < MaxReads
  /\ StatusResponse(db.job).status \in JobStatus
  /\ statusReads' = statusReads + 1
  /\ UNCHANGED <<db, sess, sessState, pc, runVars, exc, raised, outcome, hist,
                 runLog, nextId, deliveries, apiResult, crashedAt, fsVars,
                 callLog, sttVars, cleanupRun, fnVars>>

\* ----------------------------------------------------------- process_job
\* db = SessionLocal(); job = db.query(Job)...first(); raise if not job
Load ==
  /\ pc = "queued"
  /\ sess' = db
  /\ sessState' = "active"
  /\ deliveries' = deliveries + 1
  /\ IF db.job = NoJob THEN Catch(JobNotFound)
                       ELSE pc' = "init" /\ UNCHANGED exc
  /\ UNCHANGED <<db, runVars, raised, outcome, hist, runLog, nextId,
                 apiResult, crashedAt>>
  /\ UNCHANGED auxVars

\* S3Service(), GoogleSTTService(), GeminiService(): constructors may raise
InitServices ==
  /\ pc = "init"
  /\ CallStep("validate", ServiceInitError)
  /\ UNCHANGED <<db, sess, sessState, runVars, raised, outcome, hist,
                 runLog, nextId, deliveries, apiResult, crashedAt>>
  /\ UNCHANGED <<fsVars, sttVars, apiVars>>

\* Step 1: status DOWNLOADING, progress 0.1, commit
Validate ==
  /\ pc = "validate"
  /\ CommitStep([sess EXCEPT !.job = ValidateJob(sess.job)], "acquire")
  /\ UNCHANGED <<sessState, runVars, raised, outcome, nextId, deliveries,
                 apiResult, crashedAt>>
  /\ UNCHANGED auxVars

\* extract_audio_from_youtube(url, output_path): yt-dlp downloads and its
\* postprocessor writes the flac; when the flac is not at output_path the
\* first .flac file of the directory is taken, converted and deleted.
AcquireYoutube(audio) ==
  \/ \* ydl.download raises; its download may be left behind
     /\ \E left \in MaybeLeft(DownloadPath(JobId)) :
          /\ files' = files \cup left
          /\ touched' = touched \cup Foreign(left)
     /\ Catch(AcquireError)
     /\ UNCHANGED deleteFailed
  \/ \* the flac is at output_path: convert_audio_to_flac(flac_path, final_path)
     /\ files' = files \cup {audio}
     /\ touched' = touched \cup Foreign({audio})
     /\ \E ok \in BOOLEAN :
          IF ok THEN pc' = "extracted" /\ UNCHANGED exc
                ELSE Catch(AcquireError)
     /\ UNCHANGED deleteFailed
  \/ \* no flac at output_path: flac_files = list(parent.glob('*.flac'))
     /\ audio \notin files
     /\ IF GlobFlac(files) = {}
        THEN /\ Catch(FlacNotFound)
             /\ UNCHANGED <<files, touched, deleteFailed>>
        ELSE \E f \in GlobFlac(files) :
               \/ \* convert_audio_to_flac(flac_files[0], final_path); cleanup_file
                  /\ \E deleted \in BOOLEAN :
                       /\ files' = (files \cup {audio}) \
                                     (IF deleted THEN {f} ELSE {})
                       /\ deleteFailed' = (deleteFailed \/ ~deleted)
                  /\ touched' = touched \cup Foreign({f, audio})
                  /\ pc' = "extracted"
                  /\ UNCHANGED exc
               \/ \* the conversion raises
                  /\ \E left \in MaybeLeft(audio) :
                       /\ files' = files \cup left
                       /\ touched' = touched \cup Foreign({f} \cup left)
                  /\ Catch(AcquireError)
                  /\ UNCHANGED deleteFailed

\* s3_service.download_file(storage_path, upload_path);
\* extract_audio_from_file(upload_path, temp_audio_path);
\* cleanup_ffmpeg_file(upload_path)
AcquireFile(upload, audio) ==
  \/ \* the download raises; a partial copy may be left behind
     /\ \E left \in MaybeLeft(upload) :
          /\ files' = files \cup left
          /\ touched' = touched \cup Foreign(left)
     /\ Catch(DownloadError)
     /\ UNCHANGED deleteFailed
  \/ \* the download succeeds, the conversion raises: no cleanup of the copy
     /\ \E left \in MaybeLeft(audio) :
          /\ files' = files \cup {upload} \cup left
          /\ touched' = touched \cup Foreign({upload} \cup left)
     /\ Catch(AcquireError)
     /\ UNCHANGED deleteFailed
  \/ \* both succeed; the deletion of the copy may fail, which is logged
     /\ \E deleted \in BOOLEAN :
          /\ files' = (files \cup {audio, upload}) \ (IF deleted THEN {upload} ELSE {})
          /\ deleteFailed' = (deleteFailed \/ ~deleted)
     /\ touched' = touched \cup Foreign({upload, audio})
     /\ pc' = "extracted"
     /\ UNCHANGED exc

\* neither branch of the if/elif is taken (no media source row and a legacy
\* source_type that is neither YOUTUBE nor UPLOAD, or a source_kind that is
\* neither YOUTUBE nor FILE): nothing is called and nothing is raised
AcquireNoSource ==
  /\ pc' = "extracted"
  /\ UNCHANGED <<exc, files, touched, deleteFailed, callLog>>

\* Step 2: temp_audio_path = f"/tmp/{job_id}.flac"; download / extract the
\* full audio from the YouTube source or from the uploaded file
Acquire ==
  /\ pc = "acquire"
  /\ temp_audio_path' = AudioPath(JobId)
  /\ \/ Called /\ AcquireYoutube(AudioPath(JobId))
     \/ Called /\ AcquireFile(UploadPath(JobId), AudioPath(JobId))
     \/ AcquireNoSource
  /\ UNCHANGED <<db, sess, sessState, runVars, raised, outcome, hist,
                 runLog, nextId, deliveries, apiResult, crashedAt,
                 segment_files, listFailed, sttVars, apiVars>>

\* status EXTRACTING_AUDIO, progress 0.25, commit
CommitExtracting ==
  /\ pc = "extracted"
  /\ CommitStep([sess EXCEPT !.job = ExtractingJob(sess.job)], "gemini_status")
  /\ UNCHANGED <<sessState, runVars, raised, outcome, nextId, deliveries,
                 apiResult, crashedAt>>
  /\ UNCHANGED auxVars

\* Step 3: status GEMINI_RUNNING, progress 0.40, commit
CommitGemini ==
  /\ pc = "gemini_status"
  /\ CommitStep([sess EXCEPT !.job = GeminiJob(sess.job)], "gemini")
  /\ UNCHANGED <<sessState, runVars, raised, outcome, nextId, deliveries,
                 apiResult, crashedAt>>
  /\ UNCHANGED auxVars

\* if "analysis" not in result or "segments" not in result: raise ValueError
Incomplete(keys) == "analysis" \notin keys \/ "segments" \notin keys

\* gemini_service.analyze_media_and_select_segments: the request raises, or
\* the parsed output lacks a key and ValueError is raised, or the selected
\* segments (possibly none) are returned
Gemini ==
  /\ pc = "gemini"
  /\ \/ /\ Catch(GeminiApiError)
        /\ UNCHANGED segs
     \/ \E keys \in SUBSET {"analysis", "segments"} :
          IF Incomplete(keys)
          THEN /\ Catch(GeminiError)
               /\ UNCHANGED segs
          ELSE /\ \E r \in SegInputs : segs' = r
               /\ pc' = "asr_status"
               /\ UNCHANGED exc
  /\ Called
  /\ UNCHANGED <<db, sess, sessState, idx, transcriptId, lessonId, raised,
                 outcome, hist, runLog, nextId, deliveries, apiResult,
                 crashedAt>>
  /\ UNCHANGED <<fsVars, sttVars, apiVars>>

\* Step 4: status ASR_RUNNING, progress 0.60, commit
CommitAsr ==
  /\ pc = "asr_status"
  /\ CommitStep([sess EXCEPT !.job = AsrJob(sess.job)], "transcript")
  /\ UNCHANGED <<sessState, runVars, raised, outcome, nextId, deliveries,
                 apiResult, crashedAt>>
  /\ UNCHANGED auxVars


\* transcript = Transcript(job_id=job_id, ...); db.add(transcript); db.flush()
\* A flush that raises leaves the session's transaction deactivated.
AddTranscript ==
  /\ pc = "transcript"
  /\ \E ok \in BOOLEAN :
       IF ok
       THEN /\ sess' = [sess EXCEPT !.transcripts =
                          Append(@, [id |-> nextId, full_text |-> ""])]
            /\ transcriptId' = nextId
            /\ nextId' = nextId + 1
            /\ pc' = "loop"
            /\ UNCHANGED <<exc, sessState>>
       ELSE /\ sessState' = "deactive"
            /\ Catch(DbError)
            /\ UNCHANGED <<sess, transcriptId, nextId>>
  /\ UNCHANGED <<db, segs, idx, lessonId, raised, outcome, hist, runLog,
                 deliveries, apiResult, crashedAt>>
  /\ UNCHANGED auxVars

\* for idx, seg in enumerate(selected_segments): the next segment exists;
\* job.progress = 0.60 + 0.30 * (idx / total_segments); db.commit()
LoopNext ==
  /\ pc = "loop"
  /\ idx < Len(segs)
  /\ CommitStep([sess EXCEPT !.job = SegmentJob(sess.job, idx, Len(segs))],
                "cut_flac")
  /\ UNCHANGED <<sessState, runVars, raised, outcome, nextId, deliveries,
                 apiResult, crashedAt>>
  /\ UNCHANGED auxVars

\* the loop is exhausted
LoopExit ==
  /\ pc = "loop"
  /\ idx >= Len(segs)
  /\ pc' = "finalize"
  /\ UNCHANGED <<db, sess, sessState, runVars, exc, raised, outcome, hist,
                 runLog, nextId, deliveries, apiResult, crashedAt>>
  /\ UNCHANGED auxVars

\* cut_audio_segment(temp_audio_path, out, start_sec, end_sec, format);
\* segment_files.append(out): the path is appended after a cut that returned;
\* a cut that raised may leave its output behind.  duration = end_sec -
\* start_sec goes to ffmpeg as it is, without a check of its sign: whether
\* the cut returns or raises is ffmpeg's answer for every pair of times.
Cut(out, next) ==
  /\ Called
  /\ \/ /\ temp_audio_path \in files
        /\ files' = files \cup {out}
        /\ touched' = touched \cup Foreign({temp_audio_path, out})
        /\ segment_files' = Append(segment_files, out)
        /\ pc' = next
        /\ UNCHANGED exc
     \/ /\ \E left \in MaybeLeft(out) :
             /\ files' = files \cup left
             /\ touched' = touched \cup Foreign({temp_audio_path} \cup left)
        /\ Catch(CutError)
        /\ UNCHANGED segment_files

\* A. cut_audio_segment(..., format="flac")
CutFlac ==
  /\ pc = "cut_flac"
  /\ Cut(SegPath(JobId, idx, ".flac"), "stt")
  /\ UNCHANGED <<db, sess, sessState, runVars, raised, outcome, hist,
                 runLog, nextId, deliveries, apiResult, crashedAt,
                 temp_audio_path, deleteFailed, listFailed, sttVars, apiVars>>

\* ------------------------------------------------- transcribe_segment
\* A recognised word, and the first alternative of a recognition result.
Word == [word |-> "hello", startSeconds |-> 0, endSeconds |-> 1]

Alternative == [transcript |-> "hello", words |-> <<Word>>]

\* response.results, each result by its alternatives[0]: none for
\* silence or noise, or MaxResults results
Silence == << >>

SttResponses == {Silence, [k \in 1..MaxResults |-> Alternative]}

\* " ".join(parts)
RECURSIVE Join(_)
Join(parts) ==
  IF Len(parts) = 0 THEN ""
  ELSE IF Len(parts) = 1 THEN parts[1]
  ELSE Join(SubSeq(parts, 1, Len(parts) - 1)) \o " " \o parts[Len(parts)]

\* for word_info in alternative.words: words.append(...), over the results
RECURSIVE WordsOf(_)
WordsOf(results) ==
  IF Len(results) = 0 THEN << >>
  ELSE WordsOf(SubSeq(results, 1, Len(results) - 1)) \o results[Len(results)].words

\* mutant: an empty recognition result is an error
TranscribeSegmentNoResults(results) ==
  [error |-> IF Len(results) = 0 THEN NoResultsError ELSE NoExc,
   words |-> WordsOf(results),
   transcript |-> Join([k \in 1..Len(results) |-> results[k].transcript])]

\* what transcribe_segment does with the provider's response: the error it
\* raises (none), and the dict it returns
TranscribeSegment(results) ==
  [error |-> NoExc,
   words |-> WordsOf(results),
   transcript |-> Join([k \in 1..Len(results) |-> results[k].transcript])]

\* abs_w = {"word": w["word"], "startSeconds": w["startSeconds"] + start_sec,
\*          "endSeconds": w["endSeconds"] + start_sec} for w in stt_res["words"]
AbsWords(words, start_sec) ==
  [k \in 1..Len(words) |->
     [word |-> words[k].word,
      startSeconds |-> words[k].startSeconds + start_sec,
      endSeconds |-> words[k].endSeconds + start_sec]]

\* B. stt_service.transcribe_segment(seg_flac, ...): the upload of the
\* sub-segment or the recognition raises, or the provider answers; then the
\* words are re-based to the job's timeline and appended to all_words
Stt ==
  /\ pc = "stt"
  /\ Called
  /\ touched' = touched \cup Foreign({SegPath(JobId, idx, ".flac")})
  /\ \/ /\ Catch(SttError)
        /\ response' = NoResponse
        /\ UNCHANGED <<stt_res, all_words>>
     \/ \E r \in SttResponses :
          /\ response' = r
          /\ IF TranscribeSegment(r).error # NoExc
             THEN /\ Catch(TranscribeSegment(r).error)
                  /\ UNCHANGED <<stt_res, all_words>>
             ELSE /\ stt_res' = [words |-> TranscribeSegment(r).words,
                                 transcript |-> TranscribeSegment(r).transcript]
                  /\ all_words' = all_words \o
                       AbsWords(TranscribeSegment(r).words, segs[idx + 1].startSec)
                  /\ pc' = "cut_mp3"
                  /\ UNCHANGED exc
  /\ UNCHANGED <<db, sess, sessState, runVars, raised, outcome, hist,
                 runLog, nextId, deliveries, apiResult, crashedAt,
                 temp_audio_path, deleteFailed, listFailed, files,
                 segment_files, uploaded, apiVars>>

\* C. cut_audio_segment(..., format="mp3")
CutMp3 ==
  /\ pc = "cut_mp3"
  /\ Cut(SegPath(JobId, idx, ".mp3"), "upload")
  /\ UNCHANGED <<db, sess, sessState, runVars, raised, outcome, hist,
                 runLog, nextId, deliveries, apiResult, crashedAt,
                 temp_audio_path, deleteFailed, listFailed, sttVars, apiVars>>

\* mp3_s3_key = f"lessons/{job_id}/segment_{idx}.mp3"
Mp3Key(j, i) == <<"lessons/", j, "/segment_", ToString(i), ".mp3">>

\* the host of the clip locators: the bucket's, CLOUDFRONT_DOMAIN being unset
ClipHost == "bucket.s3.ap-northeast-2.amazonaws.com/"

\* mutant: the locator is built from the object's file name only
ClipUrlOfName(key) == <<"https://", ClipHost>> \o SubSeq(key, 3, Len(key))

\* clip_url = f"https://{bucket}.s3.{region}.amazonaws.com/{mp3_s3_key}"
ClipUrl(key) == <<"https://", ClipHost>> \o key

\* D. s3_service.client.upload_file(seg_mp3, settings.S3_BUCKET, mp3_s3_key):
\* the object is in the bucket when the call has returned
Upload ==
  /\ pc = "upload"
  /\ CallStep("persist", UploadError)
  /\ uploaded' = IF pc' = "persist" THEN uploaded \cup {Mp3Key(JobId, idx)}
                                    ELSE uploaded
  /\ touched' = touched \cup Foreign({SegPath(JobId, idx, ".mp3")})
  /\ UNCHANGED <<db, sess, sessState, runVars, raised, outcome, hist,
                 runLog, nextId, deliveries, apiResult, crashedAt,
                 temp_audio_path, deleteFailed, listFailed, files,
                 segment_files, stt_res, all_words, response, apiVars>>

\* for v_idx, v in enumerate(seg.get("items", [])): the DailyLessonItemModel
\* rows of one lesson; term stands for the v-th item of the AI's list
ItemRows(lesson, n) ==
  [v \in 1..n |-> [daily_lesson_id |-> lesson, idx |-> v - 1, term |-> v]]

\* mutant: the lesson rows are numbered from 1
LessonRowOneBased(id, i, ss) ==
  [id |-> id, idx |-> i + 1, seg |-> ss[i + 1],
   start_sec |-> ss[i + 1].startSec, end_sec |-> ss[i + 1].endSec,
   clip_audio_url |-> ClipUrl(Mp3Key(JobId, i))]

\* DailyLesson(job_id=job_id, idx=idx, start_sec=start_sec, end_sec=end_sec,
\* ...) for seg = selected_segments[idx], start_sec = float(seg["startSec"])
\* and end_sec = float(seg["endSec"]), clip_audio_url=clip_url
LessonRow(id, i, ss) ==
  [id |-> id, idx |-> i, seg |-> ss[i + 1],
   start_sec |-> ss[i + 1].startSec, end_sec |-> ss[i + 1].endSec,
   clip_audio_url |-> ClipUrl(Mp3Key(JobId, i))]

\* lesson = DailyLesson(job_id, idx=idx, ...); db.add(lesson); db.flush();
\* then the vocabulary items and the TranscriptSegment are added (pending).
PersistSegment ==
  /\ pc = "persist"
  /\ \E ok \in BOOLEAN :
       IF ok
       THEN /\ sess' = [sess EXCEPT
                 !.lessons = Append(@, LessonRow(nextId, idx, segs)),
                 !.items = @ \o ItemRows(nextId, segs[idx + 1].nitems),
                 !.tsegs = Append(@, [transcript_id |-> transcriptId,
                                      idx |-> idx,
                                      start_sec |-> segs[idx + 1].startSec,
                                      end_sec |-> segs[idx + 1].endSec,
                                      text |-> stt_res.transcript])]
            /\ lessonId' = nextId
            /\ nextId' = nextId + 1
            /\ idx' = idx + 1
            /\ pc' = "loop"
            /\ UNCHANGED <<exc, sessState>>
       ELSE /\ sessState' = "deactive"
            /\ Catch(DbError)
            /\ UNCHANGED <<sess, lessonId, nextId, idx>>
  /\ UNCHANGED <<db, segs, transcriptId, raised, outcome, hist, runLog,
                 deliveries, apiResult, crashedAt>>
  /\ UNCHANGED auxVars

\* db.query(TranscriptSegment).filter(transcript_id == transcript.id)
\*   .order_by(idx.asc()).all(), seen through the session
SegmentsOfTranscript(s, t) == SelectSeq(s.tsegs, LAMBDA r : r.transcript_id = t)

\* " ".join([seg.get("text", "") for seg in rows]): the rows are mapped
\* objects, which have no get; evaluating the first element raises.
FullTextRaises(rows) == Len(rows) > 0

\* the text the join gives when the text of every row can be read
FullText(rows) == Join([k \in 1..Len(rows) |-> rows[k].text])

\* for w_idx, w in enumerate(all_words): TranscriptWordModel(transcript_id,
\* idx=w_idx, start_sec=w["startSeconds"], end_sec=w["endSeconds"], word)
WordRows(t, words) ==
  [k \in 1..Len(words) |->
     [transcript_id |-> t, idx |-> k - 1, start_sec |-> words[k].startSeconds,
      end_sec |-> words[k].endSeconds, word |-> words[k].word]]

\* mutant: the status is committed by itself, before the records of the result
CompletedStatusOnly(s, t, ss, words) == [s EXCEPT !.job = CompletedJob(s.job)]

\* what the last commit of a run writes: transcript.full_text, the words,
\* the JobResult, and status COMPLETED at progress 1.0, in one transaction
Completed(s, t, ss, words) ==
  [s EXCEPT
     !.transcripts = [k \in 1..Len(@) |->
                        IF @[k].id = t
                        THEN [@[k] EXCEPT !.full_text =
                                FullText(SegmentsOfTranscript(s, t))]
                        ELSE @[k]],
     !.words = @ \o WordRows(t, words),
     !.results = Append(@, [result_type |-> "DAILY_LESSON_V2",
                            segments |-> Len(ss)]),
     !.job = CompletedJob(s.job)]

\* Update full transcript text; persist the words and the JobResult; then
\* status COMPLETED, progress 1.0, commit.
Finalize ==
  /\ pc = "finalize"
  /\ IF FullTextRaises(SegmentsOfTranscript(sess, transcriptId))
     THEN /\ Catch(AttributeError)
          /\ UNCHANGED <<db, sess, hist, runLog>>
     ELSE CommitStep(Completed(sess, transcriptId, segs, all_words), "finally")
  /\ UNCHANGED <<sessState, runVars, raised, outcome, nextId, deliveries,
                 apiResult, crashedAt>>
  /\ UNCHANGED auxVars

\* mutant: the except clause writes the failure without testing job
HasJobAlways(job) == TRUE

\* if job: the query found a row
HasJob(job) == job # NoJob

\* except Exception as e: if job: status FAILED, error str(e), commit; raise
\* The commit raises when the session was deactivated by a failed flush;
\* the exception of a raising commit replaces e.
Except ==
  /\ pc = "except"
  /\ pc' = "finally"
  /\ IF ~HasJob(sess.job)
     THEN /\ raised' = exc
          /\ UNCHANGED <<db, sess, hist, runLog>>
     ELSE IF sessState = "deactive"
     THEN /\ raised' = PendingRollbackError
          /\ UNCHANGED <<db, sess, hist, runLog>>
     ELSE \E ok \in BOOLEAN :
            IF ok THEN /\ CommitOk([sess EXCEPT !.job = FailedJob(sess.job, exc)])
                       /\ raised' = exc
                  ELSE /\ CommitFail
                       /\ raised' = HandlerDbError
  /\ UNCHANGED <<sessState, runVars, exc, outcome, nextId, deliveries,
                 apiResult, crashedAt>>
  /\ UNCHANGED auxVars

\* mutant: an error of the cleanup propagates out of the finally clause
CleanupOutcomePropagates(r, failed) == IF failed THEN CleanupError ELSE r

\* try: ... except Exception as e: logger.warning(...): whatever the cleanup
\* raised is logged, and the pending exception r (or none) stays pending
CleanupOutcome(r, failed) == r

\* finally: the full audio and the files of segment_files are deleted when
\* they exist, then the files of /tmp whose name contains the job
\* identifier; a deletion that raises is logged and the file stays; a
\* listing that raises ends the cleanup; db.close(); then process_job
\* returns, or the pending exception propagates.
Finally ==
  /\ pc = "finally"
  /\ pc' = "done"
  /\ sess' = db
  /\ sessState' = "closed"
  /\ \E listOk \in BOOLEAN :
       LET explicit == ({temp_audio_path} \cup Range(segment_files)) \cap files
           targets == explicit \cup (IF listOk THEN GlobJob(files, JobId) ELSE {})
       IN \E stuck \in SUBSET targets :
            /\ Cardinality(stuck) <= MaxUndeleted
            /\ files' = IF listOk
                        THEN CleanupTempFiles(CleanupEach(files, stuck, explicit),
                                              stuck, JobId)
                        ELSE CleanupEach(files, stuck, explicit)
            /\ touched' = touched \cup Foreign(targets)
            /\ deleteFailed' = (deleteFailed \/ stuck # {})
            /\ listFailed' = ~listOk
            /\ raised' = CleanupOutcome(raised, stuck # {} \/ ~listOk)
  /\ outcome' = IF raised' = NoExc THEN "returned" ELSE "raised"
  /\ UNCHANGED <<db, runVars, exc, hist, runLog, nextId, deliveries,
                 apiResult, crashedAt, temp_audio_path, segment_files,
                 callLog, sttVars, apiVars>>

\* positions at which a collaborator call of a stage is in progress, and
\* the positions of a running process_job
StagePcs == {"acquire", "gemini", "cut_flac", "stt", "cut_mp3", "upload"}

RunningPcs ==
  StagePcs \cup {"init", "validate", "extracted", "gemini_status",
                 "asr_status", "transcript", "loop", "persist", "finalize",
                 "except", "finally"}

\* The worker process is killed (hard time limit, out of memory, host loss):
\* process_job neither returns nor raises; the open transaction is lost.
Crash ==
  /\ pc \in RunningPcs
  /\ crashedAt' = pc
  /\ pc' = "crashed"
  /\ sess' = db
  /\ sessState' = "closed"
  /\ UNCHANGED <<db, runVars, exc, raised, outcome, hist, runLog, nextId,
                 deliveries, apiResult>>
  /\ UNCHANGED auxVars

\* The dispatcher delivers the same job identifier again after a finished
\* run: process_job has no claim step and takes no lock.
Redeliver ==
  /\ pc = "done"
  /\ deliveries < MaxDeliveries
  /\ pc' = "queued"
  /\ segs' = << >>
  /\ idx' = 0
  /\ transcriptId' = 0
  /\ lessonId' = 0
  /\ exc' = NoExc
  /\ raised' = NoExc
  /\ outcome' = "none"
  /\ runLog' = << >>
  /\ temp_audio_path' = NoPath
  /\ segment_files' = << >>
  /\ touched' = {}
  /\ deleteFailed' = FALSE
  /\ listFailed' = FALSE
  /\ callLog' = << >>
  /\ stt_res' = NoSttRes
  /\ all_words' = << >>
  /\ response' = NoResponse
  /\ UNCHANGED <<db, sess, sessState, hist, nextId, deliveries, apiResult,
                 crashedAt, files, uploaded, apiVars>>

\* task_soft_time_limit: SoftTimeLimitExceeded is raised inside the running
\* task; a collaborator call in progress is abandoned.
SoftTimeLimit ==
  /\ pc \in RunningPcs \ {"except", "finally"}
  /\ Catch(SoftTimeLimitExceeded)
  /\ callLog' = IF pc \in StagePcs
                THEN Append(callLog, [call |-> pc, seg |-> idx]) ELSE callLog
  /\ UNCHANGED <<db, sess, sessState, runVars, raised, outcome, hist,
                 runLog, nextId, deliveries, apiResult, crashedAt, fsVars,
                 sttVars, apiVars>>

\* The worker of another job writes that job's full audio to /tmp.
OtherJobWrites ==
  /\ AudioPath(OtherJobId) \notin files
  /\ files' = files \cup {AudioPath(OtherJobId)}
  /\ UNCHANGED <<db, sess, sessState, pc, runVars, exc, raised, outcome,
                 hist, runLog, nextId, deliveries, apiResult, crashedAt,
                 temp_audio_path, segment_files, touched, deleteFailed,
                 listFailed, callLog, sttVars, apiVars>>

Next ==
  \/ CreateJobCommit
  \/ CreateJobDispatch
  \/ GetJobStatus
  \/ Load
  \/ InitServices
  \/ Validate
  \/ Acquire
  \/ CommitExtracting
  \/ CommitGemini
  \/ Gemini
  \/ CommitAsr
  \/ AddTranscript
  \/ LoopNext
  \/ LoopExit
  \/ CutFlac
  \/ Stt
  \/ CutMp3
  \/ Upload
  \/ PersistSegment
  \/ Finalize
  \/ Except
  \/ Finally
  \/ Crash

\* each job identifier is delivered at most once (what create_job does)
Spec == Init /\ [][Next]_vars

\* the steps of create_job and of process_job, and the kill of the worker
NextRedeliver ==
  \/ CreateJobCommit
  \/ CreateJobDispatch
  \/ Load
  \/ InitServices
  \/ Validate
  \/ Acquire
  \/ CommitExtracting
  \/ CommitGemini
  \/ Gemini
  \/ CommitAsr
  \/ AddTranscript
  \/ LoopNext
  \/ LoopExit
  \/ CutFlac
  \/ Stt
  \/ CutMp3
  \/ Upload
  \/ PersistSegment
  \/ Finalize
  \/ Except
  \/ Finally
  \/ Crash
  \/ Redeliver

\* the dispatcher may deliver a job identifier more than once
SpecRedeliver == Init /\ [][NextRedeliver]_vars

\* the explicit timeout of the collaborator call at position p: only
\* operation.result(timeout=1800) of transcribe_segment has one
HasExplicitTimeout(p) == p = "stt"

\* with the soft time limit of the worker
NextLive == Next \/ SoftTimeLimit

\* the steps that are taken when they stay possible: those of process_job
\* that wait for no collaborator, and the soft time limit
Scheduled ==
  \/ Load
  \/ InitServices
  \/ Validate
  \/ CommitExtracting
  \/ CommitGemini
  \/ CommitAsr
  \/ AddTranscript
  \/ LoopNext
  \/ LoopExit
  \/ PersistSegment
  \/ Finalize
  \/ Except
  \/ Finally
  \/ SoftTimeLimit

\* a collaborator may never respond; the worker itself goes on, and the
\* soft time limit ends a task that runs too long
SpecLive == Init /\ [][NextLive]_vars /\ WF_vars(Scheduled)

\* /tmp is shared with the worker of another job
NextShared == Next \/ OtherJobWrites

SpecShared == Init /\ [][NextShared]_vars

\* ------------------------------------------------ the cleanup, by itself
\* the names a /tmp directory is drawn from: files of two jobs
CleanupNames ==
  {AudioPath(JobId), UploadPath(JobId), SegPath(JobId, 0, ".flac"),
   SegPath(JobId, 0, ".mp3"), AudioPath(OtherJobId), UploadPath(OtherJobId)}

\* a directory of temp files, some of them not removable, a job identifier
\* and a path; pc says which of the two functions is invoked
InitCleanup ==
  /\ db = EmptyStore
  /\ sess = EmptyStore
  /\ sessState = "closed"
  /\ pc \in {"cleanup_temp_files", "cleanup_file"}
  /\ segs = << >>
  /\ idx = 0
  /\ transcriptId = 0
  /\ lessonId = 0
  /\ exc = NoExc
  /\ raised = NoExc
  /\ outcome = "none"
  /\ hist = << >>
  /\ runLog = << >>
  /\ nextId = 1
  /\ deliveries = 0
  /\ apiResult = "none"
  /\ crashedAt = "none"
  /\ files \in SUBSET CleanupNames
  /\ temp_audio_path = NoPath
  /\ segment_files = << >>
  /\ touched = {}
  /\ deleteFailed = FALSE
  /\ listFailed = FALSE
  /\ callLog = << >>
  /\ stt_res = NoSttRes
  /\ all_words = << >>
  /\ response = NoResponse
  /\ uploaded = {}
  /\ statusReads = 0
  /\ \E j \in {JobId, OtherJobId}, path \in CleanupNames, stuck \in SUBSET files :
       cleanupRun = [NoCleanupRun EXCEPT !.job = j, !.path = path,
                                         !.stuck = stuck, !.before = files]
  /\ segmentation = NoSegmentation
  /\ sttCall = NoSttCall

\* cleanup_temp_files(job_id), invoked for the first or the second time
CleanupTempFilesCall ==
  /\ pc = "cleanup_temp_files"
  /\ cleanupRun.calls < 2
  /\ files' = CleanupTempFiles(files, cleanupRun.stuck, cleanupRun.job)
  /\ cleanupRun' = [cleanupRun EXCEPT
                      !.calls = @ + 1,
                      !.afterFirst = IF cleanupRun.calls = 0 THEN files' ELSE @]
  /\ UNCHANGED <<db, sess, sessState, pc, runVars, exc, raised, outcome, hist,
                 runLog, nextId, deliveries, apiResult, crashedAt,
                 temp_audio_path, segment_files, touched, deleteFailed,
                 listFailed, callLog, sttVars, statusReads, fnVars>>

\* cleanup_file(path), invoked for the first or the second time
CleanupFileCall ==
  /\ pc = "cleanup_file"
  /\ cleanupRun.calls < 2
  /\ files' = CleanupFile(files, cleanupRun.stuck, cleanupRun.path).fs
  /\ cleanupRun' = [cleanupRun EXCEPT
                      !.calls = @ + 1,
                      !.afterFirst = IF cleanupRun.calls = 0 THEN files' ELSE @,
                      !.existed = cleanupRun.path \in files,
                      !.result = CleanupFile(files, cleanupRun.stuck,
                                             cleanupRun.path).result]
  /\ UNCHANGED <<db, sess, sessState, pc, runVars, exc, raised, outcome, hist,
                 runLog, nextId, deliveries, apiResult, crashedAt,
                 temp_audio_path, segment_files, touched, deleteFailed,
                 listFailed, callLog, sttVars, statusReads, fnVars>>

NextCleanup == CleanupTempFilesCall \/ CleanupFileCall

\* cleanup_temp_files and cleanup_file as functions of the directory
SpecCleanup == InitCleanup /\ [][NextCleanup]_vars

\* the state of a worker that runs no job: every variable of process_job
\* and of the API at its initial value
NoJobRunning ==
  /\ db = EmptyStore
  /\ sess = EmptyStore
  /\ sessState = "closed"
  /\ segs = << >>
  /\ idx = 0
  /\ transcriptId = 0
  /\ lessonId = 0
  /\ exc = NoExc
  /\ raised = NoExc
  /\ outcome = "none"
  /\ hist = << >>
  /\ runLog = << >>
  /\ nextId = 1
  /\ deliveries = 0
  /\ apiResult = "none"
  /\ crashedAt = "none"
  /\ files = {}
  /\ temp_audio_path = NoPath
  /\ segment_files = << >>
  /\ touched = {}
  /\ deleteFailed = FALSE
  /\ listFailed = FALSE
  /\ callLog = << >>
  /\ stt_res = NoSttRes
  /\ all_words = << >>
  /\ response = NoResponse
  /\ uploaded = {}
  /\ statusReads = 0
  /\ cleanupRun = NoCleanupRun

\* ------------------------------------------ words_to_segments, by itself
\* The text of a word is the sequence of its characters.  The texts a word
\* list is drawn from: a plain word, words ending in each of the three
\* terminal marks, one of them with surrounding blanks, and a blank word.
WordTexts ==
  {<<"h", "i">>, <<"o", "k", ".">>, <<"n", "o", "!">>,
   <<" ", "s", "o", "?", " ">>, <<" ">>}

\* the start time of the first word of a list: 0, or later
FirstStarts == {0, 1}

\* an ordered word list: word k lasts one second and starts two seconds
\* after word k - 1
WordList(texts, t0) ==
  [k \in 1..Len(texts) |->
     [word |-> texts[k], startSeconds |-> t0 + 2 * (k - 1),
      endSeconds |-> t0 + 2 * (k - 1) + 1]]

\* the value None of current_start
NoTime == -1

\* the truth value Python gives a number or None: None and 0.0 are false
Truthy(x) == x # NoTime /\ x # 0

\* str.strip(): the text without its leading and trailing blanks
RECURSIVE Strip(_)
Strip(w) ==
  IF Len(w) = 0 THEN w
  ELSE IF w[1] = " " THEN Strip(Tail(w))
  ELSE IF w[Len(w)] = " " THEN Strip(SubSeq(w, 1, Len(w) - 1))
  ELSE w

\* mutant: only the full stop ends a sentence
EndsSentenceFullStop(word) == Len(word) > 0 /\ word[Len(word)] = "."

\* if word and word[-1] in ".!?"
EndsSentence(word) == Len(word) > 0 /\ word[Len(word)] \in {".", "!", "?"}

\* " ".join(current_segment), on texts
RECURSIVE JoinText(_)
JoinText(parts) ==
  IF Len(parts) = 0 THEN << >>
  ELSE IF Len(parts) = 1 THEN parts[1]
  ELSE JoinText(SubSeq(parts, 1, Len(parts) - 1)) \o <<" ">> \o parts[Len(parts)]

\* the loop of words_to_segments after n words: the segments closed so far,
\* current_segment and current_start
RECURSIVE Walk(_, _)
Walk(words, n) ==
  IF n = 0
  THEN [segments |-> << >>, current_segment |-> << >>, current_start |-> NoTime]
  ELSE LET p == Walk(words, n - 1)
           word == Strip(words[n].word)
           start == IF p.current_start = NoTime THEN words[n].startSeconds
                    ELSE p.current_start
           current == Append(p.current_segment, word)
       IN IF EndsSentence(word)
          THEN [segments |-> Append(p.segments,
                               [start |-> start, end |-> words[n].endSeconds,
                                text |-> JoinText(current)]),
                current_segment |-> << >>, current_start |-> NoTime]
          ELSE [segments |-> p.segments, current_segment |-> current,
                current_start |-> start]

\* words_to_segments(words): the segments closed in the loop, and the
\* remaining words as the final segment, whose start is
\* current_start or last_word.get("startSeconds", 0.0)
WordsToSegments(words) ==
  IF Len(words) = 0 THEN << >>
  ELSE LET w == Walk(words, Len(words))
           last_word == words[Len(words)]
       IN IF Len(w.current_segment) > 0
          THEN Append(w.segments,
                 [start |-> IF Truthy(w.current_start) THEN w.current_start
                            ELSE last_word.startSeconds,
                  end |-> last_word.endSeconds,
                  text |-> JoinText(w.current_segment)])
          ELSE w.segments

\* an ordered word list of at most MaxWords words
InitSegments ==
  /\ NoJobRunning
  /\ pc = "words_to_segments"
  /\ \E n \in 0..MaxWords, t0 \in FirstStarts :
       \E texts \in [1..n -> WordTexts] :
         segmentation = [NoSegmentation EXCEPT !.words = WordList(texts, t0)]
  /\ sttCall = NoSttCall

\* segments = words_to_segments(words)
WordsToSegmentsCall ==
  /\ pc = "words_to_segments"
  /\ ~segmentation.called
  /\ segmentation' = [segmentation EXCEPT
                        !.called = TRUE,
                        !.segments = WordsToSegments(segmentation.words)]
  /\ UNCHANGED <<db, sess, sessState, pc, runVars, exc, raised, outcome, hist,
                 runLog, nextId, deliveries, apiResult, crashedAt, fsVars,
                 callLog, sttVars, statusReads, cleanupRun, sttCall>>

\* words_to_segments as a function of the word list
SpecSegments == InitSegments /\ [][WordsToSegmentsCall]_vars

\* ----------------------------------------- transcribe_segment, by itself
RecognitionError == Exc("InvalidArgument", "400 Invalid recognition 'config'")
GcsUploadError == Exc("Forbidden", "403 POST storage.googleapis.com")

\* blob_name = f"stt-audio/{uuid.uuid4()}_{os.path.basename(local_path)}":
\* the object of this call, and an object another call has uploaded
GcsObject(u, local_path) == <<"stt-audio/", u>> \o local_path

OtherObjects ==
  {GcsObject("uuid-other", SegPath(JobId, 0, ".flac")),
   GcsObject("uuid-other", SegPath(OtherJobId, 0, ".flac"))}

\* a call of transcribe_segment(local_path) for a cut sub-segment, with the
\* bucket holding objects of other calls
InitStt ==
  /\ NoJobRunning
  /\ pc = "transcribe_segment"
  /\ segmentation = NoSegmentation
  /\ \E i \in 0..(MaxSegs - 1), others \in SUBSET OtherObjects :
       sttCall = [NoSttCall EXCEPT !.at = "upload",
                                   !.local_path = SegPath(JobId, i, ".flac"),
                                   !.remote = others]

\* what does not change in a step of transcribe_segment
sttCallFrame ==
  <<db, sess, sessState, pc, runVars, exc, raised, outcome, hist, runLog,
    nextId, deliveries, apiResult, crashedAt, fsVars, callLog, sttVars,
    statusReads, cleanupRun, segmentation>>

\* gcs_uri = self._upload_to_gcs(local_path): the object is written and its
\* URI returned, or the upload raises and gcs_uri stays None
SttUpload ==
  /\ pc = "transcribe_segment"
  /\ sttCall.at = "upload"
  /\ \/ sttCall' = [sttCall EXCEPT
                      !.at = "recognize",
                      !.gcs_uri = GcsObject("uuid-call", sttCall.local_path),
                      !.remote = @ \cup {GcsObject("uuid-call", sttCall.local_path)}]
     \/ sttCall' = [sttCall EXCEPT !.at = "finally", !.error = GcsUploadError]
  /\ UNCHANGED sttCallFrame

\* long_running_recognize and operation.result(timeout=1800): the request
\* raises, the wait times out, or the provider answers and the words and
\* the transcript are collected
SttRecognize ==
  /\ pc = "transcribe_segment"
  /\ sttCall.at = "recognize"
  /\ \/ \E e \in {RecognitionError, SttError} :
          sttCall' = [sttCall EXCEPT !.at = "finally", !.error = e]
     \/ \E r \in SttResponses :
          sttCall' = [sttCall EXCEPT
                        !.at = "finally",
                        !.error = TranscribeSegment(r).error,
                        !.result = [words |-> TranscribeSegment(r).words,
                                    transcript |-> TranscribeSegment(r).transcript]]
  /\ UNCHANGED sttCallFrame

\* mutant: the temporary object is deleted after a successful recognition only
DeleteTempOnSuccess(remote, uri, error, deleted) ==
  IF uri # NoUri /\ deleted /\ error = NoExc THEN remote \ {uri} ELSE remote

\* finally: if gcs_uri: blob.delete(), whatever the try block did; deleted
\* says whether the deletion went through
DeleteTemp(remote, uri, error, deleted) ==
  IF uri # NoUri /\ deleted THEN remote \ {uri} ELSE remote

\* the finally clause of transcribe_segment: a deletion that raises is
\* logged; then the result is returned or the exception propagates
SttFinally ==
  /\ pc = "transcribe_segment"
  /\ sttCall.at = "finally"
  /\ \E deleted \in BOOLEAN :
       sttCall' = [sttCall EXCEPT
                     !.at = "done",
                     !.remote = DeleteTemp(sttCall.remote, sttCall.gcs_uri,
                                           sttCall.error, deleted),
                     !.deleteLogged = sttCall.gcs_uri # NoUri /\ ~deleted]
  /\ UNCHANGED sttCallFrame

NextStt == SttUpload \/ SttRecognize \/ SttFinally

\* transcribe_segment as a sequence of its three steps
SpecStt == InitStt /\ [][NextStt]_vars

\* ------------------------------- process_job for an unknown identifier
\* the stores without a job row of the identifier: the empty one, and one
\* with a transcript left behind by a job whose row is gone
OrphanStores ==
  {EmptyStore,
   [EmptyStore EXCEPT !.transcripts = <<[id |-> 1, full_text |-> ""]>>]}

\* process_job.delay(job_id) was delivered for an identifier no job row
\* has; /tmp holds any of the files of two jobs
InitOrphan ==
  /\ db \in OrphanStores
  /\ sess = EmptyStore
  /\ sessState = "closed"
  /\ pc = "queued"
  /\ segs = << >>
  /\ idx = 0
  /\ transcriptId = 0
  /\ lessonId = 0
  /\ exc = NoExc
  /\ raised = NoExc
  /\ outcome = "none"
  /\ hist = << >>
  /\ runLog = << >>
  /\ nextId = 2
  /\ deliveries = 0
  /\ apiResult = "none"
  /\ crashedAt = "none"
  /\ files \in SUBSET CleanupNames
  /\ temp_audio_path = NoPath
  /\ segment_files = << >>
  /\ touched = {}
  /\ deleteFailed = FALSE
  /\ listFailed = FALSE
  /\ callLog = << >>
  /\ stt_res = NoSttRes
  /\ all_words = << >>
  /\ response = NoResponse
  /\ uploaded = {}
  /\ statusReads = 0
  /\ cleanupRun = NoCleanupRun
  /\ segmentation = NoSegmentation
  /\ sttCall = NoSttCall

\* the steps process_job takes when the query finds no row, and the kill of
\* the worker process
NextOrphan == Load \/ Except \/ Finally \/ Crash

\* process_job invoked with an identifier without a job row
SpecOrphan == InitOrphan /\ [][NextOrphan]_vars

TypeOK ==
  /\ db.job.status \in JobStatus \cup {"absent"}
  /\ db.job.progress \in 0..One
  /\ sessState \in {"closed", "active", "deactive"}
  /\ outcome \in {"none", "returned", "raised"}
  /\ idx \in 0..MaxSegs


\* ------------------------------------------------------ derived notions
Last(s) == s[Len(s)]

Front(s) == SubSeq(s, 1, Len(s) - 1)

IsPrefix(s, t) == Len(s) <= Len(t) /\ s = SubSeq(t, 1, Len(s))

\* a sequence without its repetitions of the preceding element
RECURSIVE Dedup(_)
Dedup(s) ==
  IF Len(s) <= 1 THEN s
  ELSE IF s[Len(s)] = s[Len(s) - 1] THEN Dedup(Front(s))
  ELSE Append(Dedup(Front(s)), s[Len(s)])

\* the committed status values of the job, in order of first commit
StatusSeq == Dedup([i \in 1..Len(hist) |-> hist[i].status])

\* the order of the specification's state machine, with the AI-analysis
\* status (ANALYZING, in the code GEMINI_RUNNING) after the speech-to-text one
SpecOrder ==
  <<QUEUED, DOWNLOADING, EXTRACTING_AUDIO, ASR_RUNNING, GEMINI_RUNNING, COMPLETED>>

\* the order with the AI-analysis status before the speech-to-text status
AiFirstOrder ==
  <<QUEUED, DOWNLOADING, EXTRACTING_AUDIO, GEMINI_RUNNING, ASR_RUNNING, COMPLETED>>

\* the statuses are a prefix of the order, or a prefix of its non-terminal
\* part followed by FAILED
FollowsOrder(order) ==
  \/ IsPrefix(StatusSeq, order)
  \/ /\ Len(StatusSeq) >= 2
     /\ Last(StatusSeq) = FAILED
     /\ IsPrefix(Front(StatusSeq), Front(order))

\* process_job has returned or raised, for a job that exists
Exited == outcome # "none" /\ db.job # NoJob

\* ---------------------------------------------------------------- claims

\* C1: when process_job returns or raises for an existing job, the committed
\* status is terminal: COMPLETED if it returned, FAILED if it raised, also
\* when the step that raised is a Job Store flush or commit.
C1_TerminalOnExit ==
  Exited =>
    /\ outcome = "returned" => db.job.status = COMPLETED
    /\ outcome = "raised" => db.job.status = FAILED

\* C2: after process_job has raised, no LessonSegment row and no
\* VocabularyItem row of the job is committed.
C2_NoRowsAfterRaise ==
  outcome = "raised" => Len(db.lessons) = 0 /\ Len(db.items) = 0

\* C3: no job with committed status COMPLETED has zero LessonSegment rows
\* (an empty selection ends FAILED, never COMPLETED).
C3_CompletedHasSegments ==
  db.job.status = COMPLETED => Len(db.lessons) > 0

\* C4: when a stage raised, FAILED is committed with the non-empty message
\* of that exception, and that same exception is raised to the dispatcher.
C4_FailureRecordedAndReraised ==
  (Exited /\ exc # NoExc) =>
    /\ db.job.status = FAILED
    /\ db.job.error = Str(exc)
    /\ db.job.error # ""
    /\ raised = exc

\* C5: COMPLETED and FAILED are absorbing: no step changes the committed
\* status or progress of a job whose committed status is terminal.
C5_TerminalAbsorbing ==
  [][db.job.status \in Terminal =>
       /\ db'.job.status = db.job.status
       /\ db'.job.progress = db.job.progress]_vars

\* C6: the committed progress values of a job are non-decreasing and lie in
\* [0, 1], the per-segment updates included.
C6_ProgressMonotone ==
  \A i \in 1..Len(hist) :
    /\ hist[i].progress \in 0..One
    /\ i > 1 => hist[i - 1].progress <= hist[i].progress

\* C6 witness: a run has committed the progress of its second segment
C6_Witness ==
  /\ Len(segs) >= 2
  /\ pc = "cut_flac"
  /\ idx = 1
  /\ db.job.progress = SegmentProgress(1, Len(segs))
  /\ db.job.progress > Pct(60)

\* C7: in every committed state, progress is 1.0 exactly when the status is
\* COMPLETED.
C7_FullProgressIffCompleted ==
  /\ \A i \in 1..Len(hist) :
       hist[i].progress = One <=> hist[i].status = COMPLETED
  /\ db.job # NoJob => (db.job.progress = One <=> db.job.status = COMPLETED)

\* C7 witness: a job committed as COMPLETED after one committed as ASR_RUNNING
C7_Witness ==
  /\ db.job.status = COMPLETED
  /\ db.job.progress = One
  /\ Len(hist) >= 2
  /\ hist[Len(hist) - 1].status = ASR_RUNNING
  /\ hist[Len(hist) - 1].progress < One

StageStatus(p) ==
  IF p = "acquire" THEN DOWNLOADING
  ELSE IF p = "gemini" THEN GEMINI_RUNNING
  ELSE ASR_RUNNING

\* C9: while a stage's collaborator call is in progress, and after a crash
\* in the middle of it, the committed status is the one set immediately
\* before that stage (never QUEUED), and no status change is uncommitted.
C9_CommittedBeforeStage ==
  \A p \in StagePcs :
    /\ pc = p => /\ db.job.status = StageStatus(p)
                 /\ sess.job.status = db.job.status
    /\ crashedAt = p => /\ db.job.status = StageStatus(p)
                        /\ db.job.status # QUEUED

\* C9 witness: the worker was killed in the middle of speech-to-text
C9_Witness ==
  /\ crashedAt = "stt"
  /\ pc = "crashed"
  /\ db.job.status = ASR_RUNNING

\* the number of vocabulary items of the first n segments
RECURSIVE SumItems(_, _)
SumItems(ss, n) == IF n = 0 THEN 0 ELSE SumItems(ss, n - 1) + ss[n].nitems

\* C10: when the AI stage returned n >= 1 segments and every collaborator
\* call and Job Store write succeeded, process_job returns with the job
\* COMPLETED at progress 1.0, n LessonSegment rows with idx 0..n-1 and
\* m_1 + ... + m_n VocabularyItem rows.
C10_HappyPathCompletes ==
  (pc = "done" /\ Len(segs) >= 1 /\ idx = Len(segs) /\ exc \notin {DbError}) =>
    /\ outcome = "returned"
    /\ db.job.status = COMPLETED
    /\ db.job.progress = One
    /\ Len(db.lessons) = Len(segs)
    /\ \A k \in 1..Len(db.lessons) : db.lessons[k].idx = k - 1
    /\ Len(db.items) = SumItems(segs, Len(segs))

\* the VocabularyItem rows of the lesson row r, in the order they were added
ItemsOfLesson(r) == SelectSeq(db.items, LAMBDA it : it.daily_lesson_id = r.id)

TempFilesOf(j) == {f \in files : Contains(f, j)}

C13_CleanupFailureSwallowed ==
  [][(pc = "finally" /\ pc' = "done") =>
       /\ db' = db
       /\ raised' = raised
       /\ outcome' = IF raised = NoExc THEN "returned" ELSE "raised"]_vars

\* C13 witness: speech-to-text raised, FAILED was committed, then a deletion
\* and the listing of the cleanup raised; the run raised the stage's exception
C13_Witness ==
  /\ pc = "done"
  /\ deleteFailed
  /\ listFailed
  /\ exc = SttError
  /\ raised = SttError
  /\ outcome = "raised"
  /\ db.job.status = FAILED
  /\ db.job.error = Str(SttError)

C15_NoForeignAccess == touched = {}

\* C16: the API layer only reads status and progress: once the row exists,
\* every change of its status, progress or error is a step of process_job.
C16_OnlyWorkerWrites ==
  [][(db.job # NoJob /\ db'.job # db.job) => pc \in RunningPcs]_vars

\* C17: every collaborator call in progress carries an explicit timeout,
\* and a job in a collaborator call eventually has a committed terminal
\* status (FAILED when the collaborator never responds), unless the worker
\* process is killed.
C17_BoundedCalls ==
  /\ [](pc \in StagePcs => HasExplicitTimeout(pc))
  /\ (pc \in StagePcs) ~> (db.job.status \in Terminal \/ pc = "crashed")

\* C18: no retry: no collaborator call is made twice in one invocation (the
\* cuts, speech-to-text and the upload once per segment), no call is made
\* and nothing is enqueued once an exception was caught.
C18_NoRetry ==
  /\ [](\A i, j \in 1..Len(callLog) : i # j => callLog[i] # callLog[j])
  /\ [][exc # NoExc =>
          /\ callLog' = callLog
          /\ pc' \notin StagePcs \cup {"queued"}]_vars

\* C18 witness: the run made every call of its first segment once, and the
\* speech-to-text call of its second segment raised; the run has ended
C18_Witness ==
  /\ pc = "done"
  /\ exc = SttError
  /\ idx = 1
  /\ Len(callLog) = 9
  /\ callLog[Len(callLog)] = [call |-> "stt", seg |-> 1]

\* C19: when the AI output lacks analysis or segments, the run raises, the
\* job ends FAILED, and no Transcript, LessonSegment or VocabularyItem row
\* is written.
C19_IncompleteAnalysisFails ==
  (outcome # "none" /\ exc = GeminiError) =>
    /\ outcome = "raised"
    /\ db.job.status = FAILED
    /\ Len(db.transcripts) = 0
    /\ Len(db.lessons) = 0
    /\ Len(db.items) = 0

\* C20: when the provider returns no results, transcribe_segment returns an
\* empty word list and an empty transcript and does not raise: the exception
\* a run ends with after a silent sub-segment is not one of speech-to-text.
C20_SilenceTolerated ==
  response = Silence =>
    /\ stt_res = [words |-> << >>, transcript |-> ""]
    /\ exc \notin {SttError, NoResultsError}

\* C20 witness: the first sub-segment was silent, its row is committed and
\* the second sub-segment is being cut
C20_Witness ==
  /\ response = Silence
  /\ pc = "cut_flac"
  /\ idx = 1
  /\ Len(db.lessons) = 1

\* C21: no two LessonSegment rows of the job have the same idx, also after
\* the job identifier has been delivered to process_job more than once.
C21_IdxUnique ==
  \A i, j \in 1..Len(db.lessons) :
    i # j => db.lessons[i].idx # db.lessons[j].idx

\* C22: every committed LessonSegment row has end_sec >= start_sec, whatever
\* startSec and endSec the AI stage returned.
C22_EndNotBeforeStart ==
  \A k \in 1..Len(db.lessons) : db.lessons[k].end_sec >= db.lessons[k].start_sec

\* C23: the committed TranscriptWord rows have idx 0..N-1 and start <= end,
\* and when process_job has gone through all segments without a failing
\* collaborator call or Job Store write, they are the words speech-to-text
\* returned, in segment order and in speech-to-text order within a segment,
\* each with the start offset of its segment added to its start and its end.
C23_WordsRebased ==
  /\ \A k \in 1..Len(db.words) :
       /\ db.words[k].idx = k - 1
       /\ db.words[k].start_sec <= db.words[k].end_sec
  /\ (pc = "done" /\ idx = Len(segs) /\ exc # DbError) =>
       db.words = WordRows(transcriptId, all_words)

\* the committed Transcript rows of this run
TranscriptOfRun == SelectSeq(db.transcripts, LAMBDA t : t.id = transcriptId)

\* the texts of the committed TranscriptSegment rows of this run, by idx
TextsOfRun ==
  [k \in 1..Len(SegmentsOfTranscript(db, transcriptId)) |->
     SegmentsOfTranscript(db, transcriptId)[k].text]

\* C27: the full text of a COMPLETED job's Transcript is the texts of its
\* segments joined in ascending idx order, and computing the full text does
\* not raise, for any number of persisted segments.
C27_FullTextJoined ==
  /\ db.job.status = COMPLETED =>
       \A k \in 1..Len(TranscriptOfRun) :
         TranscriptOfRun[k].full_text = Join(TextsOfRun)
  /\ exc # AttributeError

\* C26: the committed status advances to EXTRACTING_AUDIO only when the
\* acquisition has produced the local audio file; a job with an incomplete
\* source description does not get there.
C26_AudioBeforeExtracting ==
  [][(db.job.status # EXTRACTING_AUDIO /\ db'.job.status = EXTRACTING_AUDIO) =>
       AudioPath(JobId) \in files]_vars

\* the VocabularyItem rows committed for the first n lesson rows
RECURSIVE CommittedItems(_)
CommittedItems(n) ==
  IF n = 0 THEN 0
  ELSE CommittedItems(n - 1) + Len(ItemsOfLesson(db.lessons[n]))

\* C29: whenever the committed status is COMPLETED, the JobResult, the
\* Transcript and all lesson rows with their vocabulary items are committed.
C29_CompletedWithRecords ==
  db.job.status = COMPLETED =>
    /\ Len(db.results) >= 1
    /\ Len(TranscriptOfRun) = 1
    /\ Len(db.lessons) = Len(segs)
    /\ CommittedItems(Len(db.lessons)) = SumItems(segs, Len(segs))
    /\ Len(db.words) = Len(all_words)

\* C29 witness: an observer has read the status and the job is COMPLETED
\* after process_job returned
C29_Witness ==
  /\ db.job.status = COMPLETED
  /\ statusReads >= 1
  /\ outcome = "returned"

\* C30: the job row is committed before the dispatch, so process_job finds
\* it: no run started by create_job raises 'Job not found', and a queued or
\* running job has a committed row whose first committed state is QUEUED
\* at progress 0.
C30_RowCommittedBeforeDispatch ==
  /\ exc # JobNotFound
  /\ pc \in RunningPcs \cup {"queued", "undelivered"} =>
       /\ db.job # NoJob
       /\ hist[1] = Snapshot(NewJob)

\* C30 witness: process_job, delivered once, has loaded its row
C30_Witness ==
  /\ pc = "init"
  /\ deliveries = 1
  /\ sess.job = NewJob

\* the positions of the words that close a segment
Closers(words) ==
  {k \in 1..Len(words) :
     LET w == Strip(words[k].word)
     IN Len(w) > 0 /\ w[Len(w)] \in {".", "!", "?"}}

\* the last positions of the segments of a word list, in order: the closing
\* words, and the last word when it closes nothing
RECURSIVE LastPositions(_, _)
LastPositions(words, n) ==
  IF n = 0 THEN << >>
  ELSE IF n \in Closers(words) \/ n = Len(words)
       THEN Append(LastPositions(words, n - 1), n)
       ELSE LastPositions(words, n - 1)

\* the j-th run of a word list: the positions after the (j-1)-th last
\* position up to the j-th
RunFirst(words, j) ==
  IF j = 1 THEN 1 ELSE LastPositions(words, Len(words))[j - 1] + 1

RunLast(words, j) == LastPositions(words, Len(words))[j]

\* C24: each segment words_to_segments produces starts at the start time of
\* its first word and ends at the end time of its last word, the trailing
\* segment and a first word at time 0 included.
C24_SegmentTimes ==
  segmentation.called =>
    \A j \in 1..Len(segmentation.segments) :
      j <= Len(LastPositions(segmentation.words, Len(segmentation.words))) =>
        /\ segmentation.segments[j].start =
             segmentation.words[RunFirst(segmentation.words, j)].startSeconds
        /\ segmentation.segments[j].end =
             segmentation.words[RunLast(segmentation.words, j)].endSeconds

\* C25: words_to_segments partitions the word list in order: there is one
\* segment per word that ends (once stripped of surrounding blanks) in '.',
\* '!' or '?', and one for the words after the last of these; the text of
\* the j-th segment is the words of the j-th run, so every word is in exactly
\* one segment; an empty list gives no segment.
C25_Partition ==
  segmentation.called =>
    /\ Len(segmentation.segments) =
         Len(LastPositions(segmentation.words, Len(segmentation.words)))
    /\ \A j \in 1..Len(segmentation.segments) :
         segmentation.segments[j].text =
           JoinText([k \in 1..(RunLast(segmentation.words, j)
                                 - RunFirst(segmentation.words, j) + 1) |->
                       Strip(segmentation.words[
                               RunFirst(segmentation.words, j) + k - 1].word)])
    /\ Len(segmentation.words) = 0 => segmentation.segments = << >>

\* C25 witness: a list of three words, the first closing a segment with '!'
\* and the last two forming the trailing segment
C25_Witness ==
  /\ segmentation.called
  /\ Len(segmentation.words) = 3
  /\ Closers(segmentation.words) = {1}
  /\ segmentation.words[1].word = <<"n", "o", "!">>
  /\ Len(segmentation.segments) = 2

\* C28: when transcribe_segment has returned or raised after uploading the
\* temporary object, the object is gone from the bucket unless its deletion
\* failed and was logged, whatever the recognition did; and the finally
\* clause changes neither the result nor the exception of the call.
C28_RemoteCopyDeleted ==
  /\ [](sttCall.at = "done" /\ sttCall.gcs_uri # NoUri =>
          sttCall.gcs_uri \notin sttCall.remote \/ sttCall.deleteLogged)
  /\ [][sttCall.at = "finally" =>
          /\ sttCall'.result = sttCall.result
          /\ sttCall'.error = sttCall.error]_vars

\* C28 witness: the recognition timed out after the upload, and the call
\* has raised with the temporary object deleted
C28_Witness ==
  /\ sttCall.at = "done"
  /\ sttCall.error = SttError
  /\ sttCall.gcs_uri # NoUri
  /\ sttCall.gcs_uri \notin sttCall.remote
  /\ ~sttCall.deleteLogged

\* ---------------------------------------------------------------------
\* create_job when the dispatch raises

\* the text every error written by the except clause of create_job begins with
QueuePrefix == "Failed to queue job"

\* the errors a row can carry that begin with QueuePrefix
QueueErrors == {QueuePrefix \o ": " \o Str(e) : e \in {QueueError}}

\* create_job has answered with an error without handing the job over
DispatchRaised == pc = "undelivered"

FilesOfJob(dir, j) ==
  {f \in dir : \E i \in 1..Len(f) : f[i] = j}

\* C32: invoked for an identifier without a job row, process_job changes no
\* row of the store, ends by raising 'Job not found' to the dispatcher
\* without having called a collaborator, and has run the cleanup for the
\* identifier: its temp files are gone unless a deletion or the listing
\* failed, and no file was created.
C32_UnknownJobWritesNothing ==
  /\ [][db' = db /\ hist' = hist /\ callLog' = callLog]_vars
  /\ [](db.job = NoJob)
  /\ [](pc = "done" =>
          /\ outcome = "raised"
          /\ raised = JobNotFound
          /\ (~deleteFailed /\ ~listFailed) => FilesOfJob(files, JobId) = {})
  /\ [][files' \subseteq files]_vars

\* C32 witness: the run for the unknown identifier has raised 'Job not
\* found'; its cleanup met temp files of the identifier and could not
\* delete one of them; the rows and files of others are as before
C32_Witness ==
  /\ pc = "done"
  /\ deliveries = 1
  /\ db.job = NoJob
  /\ db.transcripts # << >>
  /\ raised = JobNotFound
  /\ deleteFailed
  /\ FilesOfJob(files, JobId) = {AudioPath(JobId)}
  /\ AudioPath(OtherJobId) \in files

\* ---------------------------------------------------------------------
\* the order of the collaborator calls of one run

\* the calls made for one segment
SegmentCalls == {"cut_flac", "stt", "cut_mp3", "upload"}

\* the calls of the run from the AI analysis on, in the order they were made
PipelineCalls ==
  SelectSeq(callLog, LAMBDA c : c.call \in SegmentCalls \cup {"gemini"})

\* cut-to-flac, speech-to-text, cut-to-mp3 and upload for each of the
\* segments 0 .. n-1 in turn
RECURSIVE CallsOfSegments(_)
CallsOfSegments(n) ==
  IF n = 0 THEN << >>
  ELSE CallsOfSegments(n - 1) \o
         <<[call |-> "cut_flac", seg |-> n - 1], [call |-> "stt", seg |-> n - 1],
           [call |-> "cut_mp3", seg |-> n - 1], [call |-> "upload", seg |-> n - 1]>>

\* one AI analysis, then the calls of the segments in AI output order
ExpectedCalls(n) == <<[call |-> "gemini", seg |-> 0]>> \o CallsOfSegments(n)

\* the object a clip locator names: what follows the scheme and the host
ObjectNamed(url) == SubSeq(url, 3, Len(url))

\* every lesson row of store s names the uploaded clip of its own segment
ClipsUploaded(s) ==
  \A k \in 1..Len(s.lessons) :
    /\ ObjectNamed(s.lessons[k].clip_audio_url) \in uploaded
    /\ ObjectNamed(s.lessons[k].clip_audio_url) = Mp3Key(JobId, s.lessons[k].idx)

\* C33: the calls of one run are the AI analysis once, then for each segment
\* in AI output order cut-to-flac, speech-to-text, cut-to-mp3 and upload; a
\* call for segment k is made only when the rows of the k segments before it
\* are added; a lesson row is added only right after the upload of its
\* segment returned; every lesson row's clip locator names an object that is
\* in the bucket.
C33_StagesSequential ==
  /\ [](IsPrefix(PipelineCalls, ExpectedCalls(Len(segs))))
  /\ [][(callLog' # callLog /\ Last(callLog').call \in SegmentCalls) =>
          /\ Len(sess.lessons) = Last(callLog').seg
          /\ Len(sess.tsegs) = Last(callLog').seg]_vars
  /\ [][Len(sess'.lessons) > Len(sess.lessons) =>
          /\ callLog # << >>
          /\ Last(callLog) = [call |-> "upload", seg |-> Len(sess.lessons)]
          /\ exc = NoExc
          /\ Mp3Key(JobId, Len(sess.lessons)) \in uploaded]_vars
  /\ [](ClipsUploaded(sess) /\ ClipsUploaded(db))

\* C33 witness: two segments went through their four calls in order and
\* their rows are added, each naming its uploaded clip
C33_Witness ==
  /\ pc = "loop"
  /\ idx = 2
  /\ Len(sess.lessons) = 2
  /\ PipelineCalls = ExpectedCalls(2)
  /\ uploaded = {Mp3Key(JobId, 0), Mp3Key(JobId, 1)}
  /\ ObjectNamed(sess.lessons[2].clip_audio_url) = Mp3Key(JobId, 1)

====
